---- MODULE Spec2Model ----
(***************************************************************************)
(* AudioTrackStream (library/jni/openslmediaplayer/source/                 *)
(* AudioTrackStream.cpp): an engine that owns an AudioTrack sink and one   *)
(* writer thread.  A control thread calls init / start / stop and finally  *)
(* the destructor; every thread created by start runs                      *)
(* sinkWriterThreadEntryFunc.  stop and the destructor block in            *)
(* pthread_join, so each of them is two steps (before and after the join); *)
(* every other call is one step.  Each writer thread advances one JNI /    *)
(* sink / callback call per step.                                          *)
(***************************************************************************)
EXTENDS Integers, Sequences, FiniteSets, TLC

\* ------------------------------------------------------------ bounds
MaxIter == 2         \* a writer loop starts at most this many iterations

\* ------------------------------------------------------------ constants
NULL == 0

OSLMP_RESULT_SUCCESS == "SUCCESS"
OSLMP_RESULT_ILLEGAL_ARGUMENT == "ILLEGAL_ARGUMENT"
OSLMP_RESULT_ILLEGAL_STATE == "ILLEGAL_STATE"
OSLMP_RESULT_INTERNAL_ERROR == "INTERNAL_ERROR"

kAudioSampleFormatType_S16 == "S16"
kAudioSampleFormatType_F32 == "F32"
ENCODING_PCM_16BIT == "PCM_16BIT"
ENCODING_PCM_FLOAT == "PCM_FLOAT"

SizeofInt16 == 2
SizeofFloat == 4

\* ------------------------------------------------------------ input domains
Formats == {kAudioSampleFormatType_S16, kAudioSampleFormatType_F32, "U8"}
ChannelCounts == {1, 2}
BufferSizes == {2}
BlockCounts == {4}
Callbacks == {NULL, 1}
Args == {1}
\* The pthread_t values: the process can hold two threads that have not been
\* joined, and pthread_create fails when both exist.  A joined thread's value
\* is free again.
Handles == {1, 2}
\* The addresses an AudioTrack can have: init allocates the new one before the
\* one it replaces is deleted.
SinkIds == {1, 2}

VARIABLES
    vm_, env_, track_, pt_handle_,
    buffer_size_in_frames_, buffer_block_count_,
    callback_func_, callback_args_, stop_request_,
    stop_seen,     \* the value of stop_request_ the writer threads read
    sinks,         \* the AudioTrack objects, by address
    workers,       \* the threads, by pthread_t
    ctl,           \* where the control thread is
    returned,      \* what the step into this state returned to the caller, if it
                   \* was the return of a call: the call, its inputs, its result
    seq,           \* how far the calls so far follow init; start; stop
    fault          \* what the process died of, "none" while it runs

engine == <<vm_, env_, track_, pt_handle_, buffer_size_in_frames_,
            buffer_block_count_, callback_func_, callback_args_, stop_request_>>
vars == <<vm_, env_, track_, pt_handle_, buffer_size_in_frames_,
          buffer_block_count_, callback_func_, callback_args_, stop_request_,
          stop_seen, sinks, workers, ctl, returned, seq, fault>>

\* ------------------------------------------------------------ helpers
Ev(op, arg, ret) == [op |-> op, arg |-> arg, ret |-> ret]

\* No thread: none was created with this pthread_t, or it has been joined.
Unborn == [pc |-> "unborn", log |-> <<>>, variant |-> "none",
           frames |-> 0, num_data_write |-> 0, bb_size |-> 0, bb_pos |-> 0]

halted == fault # "none"

Live(w) == workers[w].pc \notin {"unborn", "done"}
\* pthread_create has a thread to give.
CanCreate == \E h \in Handles : workers[h].pc = "unborn"
NewHandle == CHOOSE h \in Handles :
                 workers[h].pc = "unborn" /\ \A g \in Handles : g < h => workers[g].pc # "unborn"

Count(log, op) == Cardinality({i \in 1..Len(log) : log[i].op = op})

\* No AudioTrack at this address: none was made or it was deleted ("free"),
\* or it was released.
Gone(how) == [encoding |-> "none", channels |-> 0, supports_bb |-> FALSE, st |-> how]

\* The address of the AudioTrack init allocates.
NewSink == IF track_ = 1 THEN 2 ELSE 1

\* A return to the control thread: the call, whether its arguments were
\* acceptable (init: a supported format and two channels; start: a callback),
\* and the result code.
Returned(op, args_ok, result) == [op |-> op, args_ok |-> args_ok, result |-> result]

NoReturn == Returned("none", TRUE, "none")

\* The monitor of the call sequence init; start; stop; start, each returning
\* success.
SeqNext(op, result) ==
    IF result # OSLMP_RESULT_SUCCESS THEN "other"
    ELSE IF seq = "new" /\ op = "init" THEN "init"
    ELSE IF seq = "init" /\ op = "start" THEN "init_start"
    ELSE IF seq = "init_start" /\ op = "stop" THEN "init_start_stop"
    ELSE IF seq = "init_start_stop" /\ op = "start" THEN "restart"
    ELSE "other"

Return(op, args_ok, result) ==
    /\ returned' = Returned(op, args_ok, result)
    /\ seq' = SeqNext(op, result)

\* ------------------------------------------------------------ constructor
Init ==
    /\ vm_ = NULL /\ env_ = NULL /\ track_ = NULL /\ pt_handle_ = NULL
    /\ buffer_size_in_frames_ = 0 /\ buffer_block_count_ = 0
    /\ callback_func_ = NULL /\ callback_args_ = NULL
    /\ stop_request_ = FALSE
    /\ stop_seen = FALSE
    /\ sinks = [i \in SinkIds |-> Gone("free")]
    /\ workers = [w \in Handles |-> Unborn]
    /\ ctl = "idle"
    /\ returned = NoReturn
    /\ seq = "new"
    /\ fault = "none"

\* ------------------------------------------------------------ crash
\* The process dies (a call through a null pointer, a use of a deleted
\* object): no engine, thread or sink is left.
Crash(kind) ==
    /\ fault' = kind
    /\ ctl' = "crashed"
    /\ vm_' = NULL /\ env_' = NULL /\ track_' = NULL /\ pt_handle_' = NULL
    /\ buffer_size_in_frames_' = 0 /\ buffer_block_count_' = 0
    /\ callback_func_' = NULL /\ callback_args_' = NULL
    /\ stop_request_' = FALSE /\ stop_seen' = FALSE
    /\ sinks' = [i \in SinkIds |-> Gone("free")]
    /\ workers' = [w \in Handles |-> Unborn]
    /\ returned' = NoReturn
    /\ seq' = "other"

\* ------------------------------------------------------------ init
\* init as it would be without the test of num_channels.
init_result_any_channels(format, num_channels, vm_ok, create_ok) ==
    IF format \notin {kAudioSampleFormatType_S16, kAudioSampleFormatType_F32}
    THEN OSLMP_RESULT_ILLEGAL_ARGUMENT
    ELSE IF ~vm_ok THEN OSLMP_RESULT_INTERNAL_ERROR
    ELSE IF ~create_ok THEN OSLMP_RESULT_INTERNAL_ERROR
    ELSE OSLMP_RESULT_SUCCESS

\* The result of init: the format switch, the channel check, GetJavaVM and
\* AudioTrack::create, in the order the code tests them.
init_result(format, num_channels, vm_ok, create_ok) ==
    IF format \notin {kAudioSampleFormatType_S16, kAudioSampleFormatType_F32}
    THEN OSLMP_RESULT_ILLEGAL_ARGUMENT
    ELSE IF num_channels # 2 THEN OSLMP_RESULT_ILLEGAL_ARGUMENT
    ELSE IF ~vm_ok THEN OSLMP_RESULT_INTERNAL_ERROR
    ELSE IF ~create_ok THEN OSLMP_RESULT_INTERNAL_ERROR
    ELSE OSLMP_RESULT_SUCCESS

Encoding(format) ==
    IF format = kAudioSampleFormatType_S16 THEN ENCODING_PCM_16BIT ELSE ENCODING_PCM_FLOAT

ValidConfig(format, num_channels) ==
    /\ format \in {kAudioSampleFormatType_S16, kAudioSampleFormatType_F32}
    /\ num_channels = 2

\* init as it would be if it gave up the sink it holds before it knew that
\* the new one could be made.
init_failed_drops_sink(format, num_channels, vm_ok, create_ok) ==
    /\ ctl = "idle" /\ ~halted
    /\ init_result(format, num_channels, vm_ok, create_ok) # OSLMP_RESULT_SUCCESS
    /\ Return("init", ValidConfig(format, num_channels),
              init_result(format, num_channels, vm_ok, create_ok))
    /\ track_' = NULL
    /\ UNCHANGED <<vm_, env_, pt_handle_, buffer_size_in_frames_,
                   buffer_block_count_, callback_func_, callback_args_, stop_request_,
                   stop_seen, sinks, workers, ctl, fault>>

\* init returning an error: nothing is stored.
init_failed(format, num_channels, vm_ok, create_ok) ==
    /\ ctl = "idle" /\ ~halted
    /\ init_result(format, num_channels, vm_ok, create_ok) # OSLMP_RESULT_SUCCESS
    /\ Return("init", ValidConfig(format, num_channels),
              init_result(format, num_channels, vm_ok, create_ok))
    /\ UNCHANGED <<vm_, env_, track_, pt_handle_, buffer_size_in_frames_,
                   buffer_block_count_, callback_func_, callback_args_, stop_request_,
                   stop_seen, sinks, workers, ctl, fault>>

\* init from the successful AudioTrack::create on.
init_stored(format, num_channels, buffer_size_in_frames, buffer_block_count, supports_bb) ==
    /\ ctl = "idle" /\ ~halted
    /\ init_result(format, num_channels, TRUE, TRUE) = OSLMP_RESULT_SUCCESS
    \* whether AudioTrack has the ByteBuffer methods depends on the platform,
    \* not on the AudioTrack
    /\ track_ # NULL => supports_bb = sinks[track_].supports_bb
    /\ vm_' = 1
    /\ env_' = 1
    /\ sinks' = [i \in SinkIds |->
                    IF i = NewSink
                    THEN [encoding |-> Encoding(format), channels |-> num_channels,
                          supports_bb |-> supports_bb, st |-> "open"]
                    ELSE Gone("free")]
    /\ track_' = NewSink
    /\ buffer_size_in_frames_' = buffer_size_in_frames
    /\ buffer_block_count_' = buffer_block_count
    /\ Return("init", ValidConfig(format, num_channels), OSLMP_RESULT_SUCCESS)
    /\ UNCHANGED <<pt_handle_, callback_func_, callback_args_, stop_request_,
                   stop_seen, workers, ctl, fault>>

\* init replaces track_ while a writer thread may be inside the AudioTrack it
\* deletes: the thread may go on with the new one (init_stored), or the
\* process dies.
init_deletes_sink_in_use(format, num_channels) ==
    /\ ctl = "idle" /\ ~halted
    /\ init_result(format, num_channels, TRUE, TRUE) = OSLMP_RESULT_SUCCESS
    /\ track_ # NULL /\ \E w \in Handles : Live(w)
    /\ Crash("sink_deleted_in_use")

\* init, for every choice of its arguments and of the outcomes of GetJavaVM
\* and AudioTrack::create.
init ==
    \E format \in Formats, num_channels \in ChannelCounts :
        \/ \E vm_ok \in BOOLEAN, create_ok \in BOOLEAN :
               init_failed(format, num_channels, vm_ok, create_ok)
        \/ \E buffer_size_in_frames \in BufferSizes,
               buffer_block_count \in BlockCounts, supports_bb \in BOOLEAN :
               init_stored(format, num_channels, buffer_size_in_frames,
                           buffer_block_count, supports_bb)
        \/ init_deletes_sink_in_use(format, num_channels)

\* ------------------------------------------------------------ start
\* start as it would be without the test of track_.
start_result_no_state_check(callback, pt_create_ok) ==
    IF callback = NULL THEN OSLMP_RESULT_ILLEGAL_ARGUMENT
    ELSE IF ~pt_create_ok THEN OSLMP_RESULT_INTERNAL_ERROR
    ELSE OSLMP_RESULT_SUCCESS

\* start as it would be with its two tests in the other order.
start_result_state_first(callback, pt_create_ok) ==
    IF track_ = NULL THEN OSLMP_RESULT_ILLEGAL_STATE
    ELSE IF callback = NULL THEN OSLMP_RESULT_ILLEGAL_ARGUMENT
    ELSE IF ~pt_create_ok THEN OSLMP_RESULT_INTERNAL_ERROR
    ELSE OSLMP_RESULT_SUCCESS

\* The result of start: the two tests, then pthread_create.
start_result(callback, pt_create_ok) ==
    IF callback = NULL THEN OSLMP_RESULT_ILLEGAL_ARGUMENT
    ELSE IF track_ = NULL THEN OSLMP_RESULT_ILLEGAL_STATE
    ELSE IF ~pt_create_ok THEN OSLMP_RESULT_INTERNAL_ERROR
    ELSE OSLMP_RESULT_SUCCESS

\* start as it would be if a failed pthread_create left the callback stored.
start_failed_keeps_callback(callback, args, pt_create_ok) ==
    /\ ctl = "idle" /\ ~halted
    /\ LET r == start_result(callback, pt_create_ok) IN
       /\ pt_create_ok => CanCreate
       /\ IF r = OSLMP_RESULT_SUCCESS
          THEN /\ callback_func_' = callback
               /\ callback_args_' = args
               /\ workers' = [workers EXCEPT ![NewHandle] = [Unborn EXCEPT !.pc = "entry"]]
               /\ pt_handle_' = NewHandle
               /\ stop_seen' = stop_request_
          ELSE IF r = OSLMP_RESULT_INTERNAL_ERROR
          THEN /\ callback_func_' = callback
               /\ callback_args_' = args
               /\ UNCHANGED <<workers, pt_handle_, stop_seen>>
          ELSE UNCHANGED <<callback_func_, callback_args_, workers, pt_handle_, stop_seen>>
       /\ Return("start", callback # NULL, r)
    /\ UNCHANGED <<vm_, env_, track_, buffer_size_in_frames_, buffer_block_count_,
                   stop_request_, sinks, ctl, fault>>

start(callback, args, pt_create_ok) ==
    /\ ctl = "idle" /\ ~halted
    /\ LET r == start_result(callback, pt_create_ok) IN
       /\ pt_create_ok => CanCreate
       /\ IF r = OSLMP_RESULT_SUCCESS
          THEN /\ callback_func_' = callback
               /\ callback_args_' = args
               /\ workers' = [workers EXCEPT ![NewHandle] = [Unborn EXCEPT !.pc = "entry"]]
               /\ pt_handle_' = NewHandle
               \* pthread_create publishes the creator's earlier stores
               /\ stop_seen' = stop_request_
          ELSE IF r = OSLMP_RESULT_INTERNAL_ERROR
          THEN /\ callback_func_' = NULL
               /\ callback_args_' = NULL
               /\ UNCHANGED <<workers, pt_handle_, stop_seen>>
          ELSE UNCHANGED <<callback_func_, callback_args_, workers, pt_handle_, stop_seen>>
       /\ Return("start", callback # NULL, r)
    /\ UNCHANGED <<vm_, env_, track_, buffer_size_in_frames_, buffer_block_count_,
                   stop_request_, sinks, ctl, fault>>

\* ------------------------------------------------------------ stop
\* stop as it would be if it raised the stop request before its test of
\* pt_handle_.
stop_requests_first ==
    /\ ctl = "idle" /\ ~halted
    /\ stop_request_' = TRUE
    /\ IF pt_handle_ = NULL
       THEN /\ Return("stop", TRUE, OSLMP_RESULT_SUCCESS)
            /\ UNCHANGED ctl
       ELSE /\ ctl' = "stop_join"
            /\ returned' = NoReturn
            /\ UNCHANGED seq
    /\ UNCHANGED <<vm_, env_, track_, pt_handle_, buffer_size_in_frames_,
                   buffer_block_count_, callback_func_, callback_args_,
                   stop_seen, sinks, workers, fault>>

\* stop up to the pthread_join: the early return, or the stop request.
stop ==
    /\ ctl = "idle" /\ ~halted
    /\ IF pt_handle_ = NULL
       THEN /\ Return("stop", TRUE, OSLMP_RESULT_SUCCESS)
            /\ UNCHANGED <<stop_request_, ctl>>
       ELSE /\ stop_request_' = TRUE
            /\ ctl' = "stop_join"
            /\ returned' = NoReturn
            /\ UNCHANGED seq
    /\ UNCHANGED <<vm_, env_, track_, pt_handle_, buffer_size_in_frames_,
                   buffer_block_count_, callback_func_, callback_args_,
                   stop_seen, sinks, workers, fault>>

\* stop as it would be if it forgot the callback after the join.
stop_clears_keeps_callback ==
    /\ pt_handle_' = NULL
    /\ UNCHANGED <<callback_func_, callback_args_>>
    /\ stop_request_' = FALSE

\* stop as it would be if it left the stop request raised after the join.
stop_clears_keeps_flag ==
    /\ pt_handle_' = NULL
    /\ callback_func_' = NULL
    /\ callback_args_' = NULL
    /\ UNCHANGED stop_request_

\* The stores of stop after pthread_join.
stop_clears ==
    /\ pt_handle_' = NULL
    /\ callback_func_' = NULL
    /\ callback_args_' = NULL
    /\ stop_request_' = FALSE

\* stop from the return of pthread_join on.
stop_joined ==
    /\ ctl = "stop_join" /\ ~halted
    /\ workers[pt_handle_].pc = "done"
    /\ workers' = [workers EXCEPT ![pt_handle_] = Unborn]
    /\ stop_clears
    /\ ctl' = "idle"
    /\ Return("stop", TRUE, OSLMP_RESULT_SUCCESS)
    /\ UNCHANGED <<vm_, env_, track_, buffer_size_in_frames_, buffer_block_count_,
                   stop_seen, sinks, fault>>

\* ------------------------------------------------------------ destructor
\* The destructor after its join, if any: release the sink, forget the VM.
Release ==
    /\ IF env_ # NULL /\ track_ # NULL
       THEN /\ sinks' = [sinks EXCEPT ![track_] = Gone("released")]
            /\ track_' = NULL
       ELSE UNCHANGED <<sinks, track_>>
    /\ vm_' = NULL
    /\ ctl' = "destroyed"

Destructor ==
    /\ ctl = "idle" /\ ~halted
    /\ IF pt_handle_ # NULL
       THEN /\ stop_request_' = TRUE
            /\ ctl' = "dtor_join"
            /\ UNCHANGED <<sinks, track_, vm_>>
       ELSE /\ Release
            /\ UNCHANGED stop_request_
    /\ seq' = "other"
    /\ returned' = NoReturn
    /\ UNCHANGED <<env_, pt_handle_, buffer_size_in_frames_, buffer_block_count_,
                   callback_func_, callback_args_, stop_seen, workers,
                   fault>>

Destructor_joined ==
    /\ ctl = "dtor_join" /\ ~halted
    /\ workers[pt_handle_].pc = "done"
    /\ workers' = [workers EXCEPT ![pt_handle_] = Unborn]
    /\ Release
    /\ returned' = NoReturn
    /\ UNCHANGED <<env_, pt_handle_, buffer_size_in_frames_, buffer_block_count_,
                   callback_func_, callback_args_, stop_request_, stop_seen,
                   seq, fault>>

\* The store to stop_request_ reaches the writer threads.  stop_request_ is a
\* plain bool shared without synchronisation, so a writer thread may read the
\* old value for a while after the control thread's store.
StoreVisible ==
    /\ ~halted
    /\ stop_seen # stop_request_
    /\ stop_seen' = stop_request_
    /\ returned' = NoReturn
    /\ UNCHANGED <<vm_, env_, track_, pt_handle_, buffer_size_in_frames_,
                   buffer_block_count_, callback_func_, callback_args_, stop_request_,
                   sinks, workers, ctl, seq, fault>>

\* ------------------------------------------------------------ writer thread
JNI_OK == 0
JNI_ERR == -1
AudioTrack_SUCCESS == 0
AudioTrack_ERROR == -1

\* A step of a writer thread that the process survives.  A thread that
\* outlives the engine runs on a destroyed object: it may find the memory as
\* it was left and go on, or the process dies (UseAfterFree).
Survive ==
    /\ returned' = NoReturn
    /\ UNCHANGED fault

UseAfterFree(w) ==
    /\ ~halted /\ ctl = "destroyed" /\ Live(w)
    /\ Crash("use_after_free")

\* One step of thread w: the new program counter and the call it logs.
Step(w, pc, ev) ==
    workers' = [workers EXCEPT ![w].pc = pc, ![w].log = Append(@, ev)]

\* What a step of a writer thread leaves alone.
Others == <<vm_, env_, track_, pt_handle_, buffer_size_in_frames_,
            buffer_block_count_, callback_func_, callback_args_, stop_request_,
            stop_seen, sinks, ctl, seq>>

\* sinkWriterThreadEntryFunc up to the call of sinkWriterThreadProcess.
sinkWriterThreadEntryFunc(w) ==
    /\ ~halted /\ workers[w].pc = "entry"
    /\ IF vm_ = NULL
       THEN Crash("null_vm")
       ELSE /\ \E r \in {JNI_OK, JNI_ERR} :
                   Step(w, IF r = JNI_OK THEN "process" ELSE "done", Ev("attach", 0, r))
            /\ Survive
            /\ UNCHANGED Others

\* The loop sinkWriterThreadProcess dispatches to.
LoopVariant(format, supports_bb) ==
    IF format = ENCODING_PCM_16BIT
    THEN (IF supports_bb THEN "S16ByteBuffer" ELSE "S16")
    ELSE IF format = ENCODING_PCM_FLOAT
    THEN (IF supports_bb THEN "FloatByteBuffer" ELSE "Float")
    ELSE "none"

\* A thread that returned from its entry function straight after a failed
\* play, without DetachCurrentThread.
AfterPlay_no_detach(play_result) ==
    IF play_result = AudioTrack_SUCCESS THEN "alloc" ELSE "done"

\* Where sinkWriterThreadProcess goes after play: into a loop, or past the
\* pause and stop to its return.
AfterPlay(play_result) ==
    IF play_result = AudioTrack_SUCCESS THEN "alloc" ELSE "return"

\* sinkWriterThreadProcess up to the dispatch: getAudioFormat, play,
\* supportsByteBufferMethods.
sinkWriterThreadProcess(w) ==
    /\ ~halted /\ workers[w].pc = "process"
    /\ IF track_ = NULL
       THEN Crash("null_track")
       ELSE /\ \E play_result \in {AudioTrack_SUCCESS, AudioTrack_ERROR} :
                   workers' = [workers EXCEPT
                       ![w].pc = AfterPlay(play_result),
                       ![w].log = Append(@, Ev("play", 0, play_result)),
                       ![w].variant = IF play_result = AudioTrack_SUCCESS
                                      THEN LoopVariant(sinks[track_].encoding,
                                                       sinks[track_].supports_bb)
                                      ELSE "none"]
            /\ Survive
            /\ UNCHANGED Others

IsByteBuffer(variant) == variant \in {"S16ByteBuffer", "FloatByteBuffer"}

SampleSize(variant) == IF variant = "S16ByteBuffer" THEN SizeofInt16 ELSE SizeofFloat

\* The head of each loop function: the locals and the transport buffer.
LoopEnter(w) ==
    /\ ~halted /\ workers[w].pc = "alloc"
    /\ IF workers[w].variant = "none"
       THEN /\ workers' = [workers EXCEPT ![w].pc = "pause"]
            /\ Survive
            /\ UNCHANGED Others
       ELSE IF track_ = NULL
       THEN Crash("null_track")
       ELSE /\ LET num_channels == sinks[track_].channels
                   frames == buffer_size_in_frames_
                   ndw == num_channels * frames
                   bytes == IF IsByteBuffer(workers[w].variant)
                            THEN ndw * SampleSize(workers[w].variant) ELSE 0
               IN \E ok \in BOOLEAN :
                   workers' = [workers EXCEPT
                       ![w].pc = IF ok THEN "test" ELSE "pause",
                       ![w].log = Append(@, Ev("alloc", ndw, IF ok THEN 1 ELSE 0)),
                       ![w].frames = frames,
                       ![w].num_data_write = ndw,
                       ![w].bb_size = bytes,
                       ![w].bb_pos = 0]
            /\ Survive
            /\ UNCHANGED Others

\* Whether the loop calls the render callback before each write.
InvokesCallback(variant) == variant # "Float"

\* while (!stop_request_)
LoopTest(w) ==
    /\ ~halted /\ workers[w].pc = "test"
    /\ IF stop_seen
       THEN workers' = [workers EXCEPT ![w].pc = "pause"]
       ELSE /\ Count(workers[w].log, "write") < MaxIter
            /\ workers' = [workers EXCEPT
                   ![w].pc = IF InvokesCallback(workers[w].variant)
                             THEN "callback" ELSE "write"]
    /\ Survive
    /\ UNCHANGED Others

\* (*callback_func_)(buffer, format, num_channels, buffer_size_in_frames, callback_args_)
LoopCallback(w) ==
    /\ ~halted /\ workers[w].pc = "callback"
    /\ IF callback_func_ = NULL
       THEN Crash("null_callback")
       ELSE /\ Step(w, "write", Ev("callback", workers[w].frames, callback_func_))
            /\ Survive
            /\ UNCHANGED Others

\* What the sink may answer to a write of req elements (or bytes): all of
\* it, or less.  A direct view that has less than req left is refused with
\* an error code.
WriteResults(req, remaining) ==
    IF remaining < req THEN {AudioTrack_ERROR}
    ELSE {req, req - 1}

\* A loop that went on after a short write.
AfterWrite_retries(bb, req, write_result) ==
    IF bb THEN "rewind" ELSE "test"

\* A loop that left sinkWriterThreadProcess on a short write (return for
\* break), past the pause and stop.
AfterWrite_returns(bb, req, write_result) ==
    IF write_result # req THEN "return"
    ELSE IF bb THEN "rewind" ELSE "test"

\* if (write_result != num_data_write) break; and, in the byte buffer loops,
\* if (write_result != bb.size()) break; bb.rewind();
AfterWrite(bb, req, write_result) ==
    IF write_result # req THEN "pause"
    ELSE IF bb THEN "rewind" ELSE "test"

\* track_->write(...) and the test of its result.
LoopWrite(w) ==
    /\ ~halted /\ workers[w].pc = "write"
    /\ IF track_ = NULL
       THEN Crash("null_track")
       ELSE /\ LET me == workers[w]
                   bb == IsByteBuffer(me.variant)
                   req == IF bb THEN me.bb_size ELSE me.num_data_write
                   remaining == IF bb THEN me.bb_size - me.bb_pos ELSE req
               IN \E write_result \in WriteResults(req, remaining) :
                   workers' = [workers EXCEPT
                       ![w].pc = AfterWrite(bb, req, write_result),
                       ![w].log = Append(@, Ev("write", req, write_result)),
                       ![w].bb_pos = IF bb /\ write_result > 0
                                     THEN @ + write_result ELSE @]
            /\ Survive
            /\ UNCHANGED Others

\* bb.rewind() as it would be if it left the position of the view alone.
LoopRewind_keeps_position(w) ==
    /\ ~halted /\ workers[w].pc = "rewind"
    /\ workers' = [workers EXCEPT ![w].pc = "test",
                                  ![w].log = Append(@, Ev("rewind", 0, 0))]
    /\ Survive
    /\ UNCHANGED Others

\* bb.rewind()
LoopRewind(w) ==
    /\ ~halted /\ workers[w].pc = "rewind"
    /\ workers' = [workers EXCEPT ![w].pc = "test",
                                  ![w].log = Append(@, Ev("rewind", 0, 0)),
                                  ![w].bb_pos = 0]
    /\ Survive
    /\ UNCHANGED Others

\* track_->pause(env)
trackPause(w) ==
    /\ ~halted /\ workers[w].pc = "pause"
    /\ IF track_ = NULL
       THEN Crash("null_track")
       ELSE /\ Step(w, "stop", Ev("pause", 0, 0))
            /\ Survive
            /\ UNCHANGED Others

\* track_->stop(env)
trackStop(w) ==
    /\ ~halted /\ workers[w].pc = "stop"
    /\ IF track_ = NULL
       THEN Crash("null_track")
       ELSE /\ Step(w, "return", Ev("stop", 0, 0))
            /\ Survive
            /\ UNCHANGED Others

\* Back in sinkWriterThreadEntryFunc: DetachCurrentThread and the return.
DetachCurrentThread(w) ==
    /\ ~halted /\ workers[w].pc = "return"
    /\ IF vm_ = NULL
       THEN Crash("null_vm")
       ELSE /\ Step(w, "done", Ev("detach", 0, 0))
            /\ Survive
            /\ UNCHANGED Others

\* ------------------------------------------------------------ specification
Next ==
    \/ init
    \/ \E callback \in Callbacks, args \in Args, pt_create_ok \in BOOLEAN :
            start(callback, args, pt_create_ok)
    \/ stop
    \/ stop_joined
    \/ Destructor
    \/ Destructor_joined
    \/ StoreVisible
    \/ \E w \in Handles : sinkWriterThreadEntryFunc(w)
    \/ \E w \in Handles : sinkWriterThreadProcess(w)
    \/ \E w \in Handles : LoopEnter(w)
    \/ \E w \in Handles : LoopTest(w)
    \/ \E w \in Handles : LoopCallback(w)
    \/ \E w \in Handles : LoopWrite(w)
    \/ \E w \in Handles : LoopRewind(w)
    \/ \E w \in Handles : trackPause(w)
    \/ \E w \in Handles : trackStop(w)
    \/ \E w \in Handles : DetachCurrentThread(w)
    \/ \E w \in Handles : UseAfterFree(w)

Spec == Init /\ [][Next]_vars

\* One writer thread's steps.
Thread(w) ==
    \/ sinkWriterThreadEntryFunc(w) \/ sinkWriterThreadProcess(w)
    \/ LoopEnter(w) \/ LoopTest(w) \/ LoopCallback(w) \/ LoopWrite(w)
    \/ LoopRewind(w) \/ trackPause(w) \/ trackStop(w) \/ DetachCurrentThread(w)

\* The scheduler runs every thread that can run, a store reaches the other
\* cores, and pthread_join returns once the thread has ended.  The caller is
\* not obliged to make any call.
FairSpec ==
    /\ Spec
    /\ \A w \in Handles : WF_vars(Thread(w))
    /\ WF_vars(StoreVisible)
    /\ WF_vars(stop_joined)
    /\ WF_vars(Destructor_joined)

\* ------------------------------------------------------------ properties
Created(w) == workers[w].pc # "unborn"
Log(w) == workers[w].log
Has(log, op) == \E i \in 1..Len(log) : log[i].op = op
Attached(log) == \E i \in 1..Len(log) : log[i].op = "attach" /\ log[i].ret = JNI_OK
PlayOk(log) == \E i \in 1..Len(log) : log[i].op = "play" /\ log[i].ret = AudioTrack_SUCCESS
PlayFailed(log) == \E i \in 1..Len(log) : log[i].op = "play" /\ log[i].ret # AudioTrack_SUCCESS
ShortWrite(log) == \E i \in 1..Len(log) : log[i].op = "write" /\ log[i].ret # log[i].arg
AllocFailed(log) == \E i \in 1..Len(log) : log[i].op = "alloc" /\ log[i].ret = 0
\* The calls made on the sink, in order.
SinkCalls(log) == SelectSeq(log, LAMBDA e : e.op \in {"play", "write", "pause", "stop"})
\* Thread w has left sinkWriterThreadProcess (or never entered it).
Left(w) == workers[w].pc \in {"return", "done"}

\* C1: after init; start; stop, each returning success, the engine is
\* Initialized: the sink is held and open, none was released, no thread handle
\* is held, callback and args are null, the stop request is cleared, and the
\* thread that start created has ended and been joined (no thread is left).
C1_InitStartStop ==
    seq = "init_start_stop" =>
        /\ ctl = "idle"
        /\ track_ # NULL /\ sinks[track_].st = "open"
        /\ \A i \in SinkIds : sinks[i].st # "released"
        /\ pt_handle_ = NULL
        /\ callback_func_ = NULL /\ callback_args_ = NULL
        /\ stop_request_ = FALSE
        /\ \A w \in Handles : ~Created(w)

C1_Witness ==
    /\ seq = "init_start_stop"
    /\ returned = Returned("stop", TRUE, OSLMP_RESULT_SUCCESS)

\* C2: a start with a callback, made while a thread handle is held, returns
\* ILLEGAL_STATE, creates no thread and leaves callback, args and handle alone.
C2_StartWhileRunning ==
    [][(returned'.op = "start" /\ returned'.args_ok /\ pt_handle_ # NULL)
        => /\ returned'.result = OSLMP_RESULT_ILLEGAL_STATE
           /\ workers' = workers
           /\ UNCHANGED <<callback_func_, callback_args_, pt_handle_>>]_vars

\* C3: at most one thread that start created is un-joined, and it is the one
\* whose handle the engine holds (no handle is overwritten or dropped).
C3_OneWorker ==
    /\ Cardinality({w \in Handles : Created(w)}) <= 1
    /\ \A w \in Handles : Created(w) => pt_handle_ = w

\* C4: in every loop, each write directly follows a callback invocation of the
\* same iteration, and the callback invocations never exceed the writes by
\* more than one.
C4_FillThenWrite ==
    \A w \in Handles :
        /\ \A i \in 1..Len(Log(w)) :
               Log(w)[i].op = "write" => i > 1 /\ Log(w)[i - 1].op = "callback"
        /\ Count(Log(w), "callback") <= Count(Log(w), "write") + 1

\* C5: a thread whose play succeeded calls, once it has left its loop, pause
\* and then stop on the sink, once each, and writes nothing after the pause; a
\* thread whose play failed makes no write, pause or stop.
C5_PauseThenStop ==
    \A w \in Handles :
        LET calls == SinkCalls(Log(w)) n == Len(SinkCalls(Log(w))) IN
        /\ PlayFailed(Log(w)) => n = 1
        /\ Count(Log(w), "pause") <= 1 /\ Count(Log(w), "stop") <= 1
        /\ \A i \in 1..n : calls[i].op = "pause" =>
               \A j \in (i + 1)..n : calls[j].op = "stop" /\ j = i + 1
        /\ \A i \in 1..n : calls[i].op = "stop" => i > 1 /\ calls[i - 1].op = "pause"
        /\ (PlayOk(Log(w)) /\ Left(w)) =>
               /\ n >= 3
               /\ calls[n - 1].op = "pause" /\ calls[n].op = "stop"

C5_Witness ==
    \E w \in Handles :
        /\ workers[w].pc = "done"
        /\ ShortWrite(Log(w))
        /\ Count(Log(w), "write") = MaxIter

\* C6: a stop that waits in pthread_join returns success in the end.
C6_StopReturns ==
    (ctl = "stop_join") ~> (returned = Returned("stop", TRUE, OSLMP_RESULT_SUCCESS))

\* C7: a thread that attached did so before it first touched the sink, and
\* has detached exactly once, as its last act, when it has ended; a thread
\* that is still attached has not ended.
C7_AttachDetach ==
    \A w \in Handles :
        LET log == Log(w) IN
        /\ Len(log) > 0 => log[1].op = "attach"
        /\ Count(log, "attach") <= 1 /\ Count(log, "detach") <= 1
        /\ Len(SinkCalls(log)) > 0 => Attached(log)
        /\ \A i \in 1..Len(log) : log[i].op = "detach" => i = Len(log) /\ Attached(log)
        /\ (workers[w].pc = "done" /\ Attached(log)) =>
               log[Len(log)].op = "detach"

C7_Witness ==
    \E w \in Handles :
        /\ workers[w].pc = "done"
        /\ PlayFailed(Log(w))
        /\ Log(w)[Len(Log(w))].op = "detach"

\* C8: a start with a callback on an engine that holds no sink returns
\* ILLEGAL_STATE, creates no thread and leaves callback, args and handle null.
C8_StartWithoutSink ==
    [][(returned'.op = "start" /\ returned'.args_ok /\ track_ = NULL)
        => /\ returned'.result = OSLMP_RESULT_ILLEGAL_STATE
           /\ workers' = workers
           /\ callback_func_' = NULL /\ callback_args_' = NULL /\ pt_handle_' = NULL]_vars

C8_Witness ==
    /\ returned = Returned("start", TRUE, OSLMP_RESULT_ILLEGAL_STATE)
    /\ track_ = NULL
    /\ seq = "other"

\* C9: a start with a null callback returns ILLEGAL_ARGUMENT whatever the
\* state of the engine, creates no thread and changes no field of the engine.
C9_StartNullCallback ==
    [][(returned'.op = "start" /\ ~returned'.args_ok)
        => /\ returned'.result = OSLMP_RESULT_ILLEGAL_ARGUMENT
           /\ workers' = workers
           /\ UNCHANGED engine]_vars

C9_Witness ==
    /\ returned = Returned("start", FALSE, OSLMP_RESULT_ILLEGAL_ARGUMENT)
    /\ track_ = NULL

\* C10: an init with other than two channels, or with a format that is neither
\* S16 nor F32, returns ILLEGAL_ARGUMENT and creates no sink, whatever the
\* state of the engine.
C10_InitBadConfig ==
    [][(returned'.op = "init" /\ ~returned'.args_ok)
        => /\ returned'.result = OSLMP_RESULT_ILLEGAL_ARGUMENT
           /\ sinks' = sinks
           /\ track_' = track_]_vars

C10_Witness ==
    /\ returned = Returned("init", FALSE, OSLMP_RESULT_ILLEGAL_ARGUMENT)
    /\ pt_handle_ # NULL

\* C11: a stop made while no thread handle is held returns SUCCESS and changes
\* no field of the engine, no sink and no thread (so a stop after a stop
\* changes nothing and returns the same).
C11_StopWithoutWorker ==
    [][(returned'.op = "stop" /\ pt_handle_ = NULL)
        => /\ returned'.result = OSLMP_RESULT_SUCCESS
           /\ UNCHANGED engine
           /\ sinks' = sinks /\ workers' = workers /\ ctl' = ctl]_vars

C11_Witness ==
    /\ returned = Returned("stop", TRUE, OSLMP_RESULT_SUCCESS)
    /\ track_ = NULL
    /\ pt_handle_ = NULL /\ ~stop_request_

\* C12: a start whose pthread_create fails, made with a callback while a sink
\* is held and no thread handle is, returns INTERNAL_ERROR, leaves callback and
\* args null, records no handle, creates no thread and leaves the sink held
\* and the control thread free for the next start.
C12_StartCreateFails ==
    [][(returned'.op = "start" /\ returned'.result = OSLMP_RESULT_INTERNAL_ERROR
            /\ pt_handle_ = NULL)
        => /\ returned'.args_ok
           /\ callback_func_' = NULL /\ callback_args_' = NULL
           /\ pt_handle_' = NULL
           /\ workers' = workers
           /\ track_ # NULL /\ track_' = track_ /\ sinks' = sinks
           /\ stop_request_' = stop_request_
           /\ ctl' = "idle"]_vars

C12_Witness ==
    /\ returned = Returned("start", TRUE, OSLMP_RESULT_INTERNAL_ERROR)
    /\ pt_handle_ = NULL /\ callback_func_ = NULL
    /\ track_ # NULL /\ sinks[track_].st = "open"
    /\ \A w \in Handles : ~Created(w)

C14_ShortWriteEnds ==
    \A w \in Handles :
        LET log == Log(w) IN
        \A i \in 1..Len(log) :
            (log[i].op = "write" /\ log[i].ret # log[i].arg) =>
                /\ \A j \in (i + 1)..Len(log) :
                       log[j].op \notin {"callback", "write", "rewind"}
                /\ Count(log, "write") = Count(SubSeq(log, 1, i), "write")
                /\ workers[w].pc \in {"pause", "stop", "return", "done"}
                /\ Left(w) =>
                       /\ Len(log) >= i + 2
                       /\ log[i + 1].op = "pause" /\ log[i + 2].op = "stop"

C14_Witness ==
    \E w \in Handles :
        /\ workers[w].pc = "done"
        /\ workers[w].variant = "FloatByteBuffer"
        /\ Count(Log(w), "write") = MaxIter
        /\ ShortWrite(Log(w))
        /\ Has(Log(w), "stop")

\* C15: in the two ByteBuffer loops the view is rewound once after every write
\* of the whole block and before the next callback, so that its position is 0
\* at every callback and write; after a write of another count there is no
\* rewind; the other two loops never rewind.
C15_RewindAfterWrite ==
    \A w \in Handles :
        LET log == Log(w) IN
        /\ workers[w].pc \in {"callback", "write"} => workers[w].bb_pos = 0
        /\ Has(log, "rewind") => IsByteBuffer(workers[w].variant)
        /\ \A i \in 1..Len(log) :
               /\ log[i].op = "rewind" =>
                      i > 1 /\ log[i - 1].op = "write" /\ log[i - 1].ret = log[i - 1].arg
               /\ (log[i].op = "write" /\ log[i].ret # log[i].arg) =>
                      \A j \in (i + 1)..Len(log) : log[j].op # "rewind"
               /\ (IsByteBuffer(workers[w].variant) /\ log[i].op = "write"
                       /\ log[i].ret = log[i].arg) =>
                      IF i < Len(log) THEN log[i + 1].op = "rewind"
                      ELSE workers[w].pc = "rewind"

C15_Witness ==
    \E w \in Handles :
        /\ IsByteBuffer(workers[w].variant)
        /\ workers[w].pc = "write"
        /\ Count(Log(w), "rewind") = 1
        /\ workers[w].bb_pos = 0

\* C16: whenever start creates a thread the stop request is false, before and
\* after the call, and the new thread sees it false: also when the start
\* follows a start and stop, or a thread that ended by itself.
C16_StartFlagClear ==
    [][(returned'.op = "start" /\ returned'.result = OSLMP_RESULT_SUCCESS)
        => /\ ~stop_request_ /\ ~stop_request_'
           /\ ~stop_seen'
           /\ workers'[pt_handle_'].pc = "entry"]_vars

C16_Witness ==
    /\ seq = "restart"
    /\ returned = Returned("start", TRUE, OSLMP_RESULT_SUCCESS)
    /\ ~stop_request_ /\ ~stop_seen

\* C17: no sink has been released while a thread that start created is still
\* running, and at most one sink is released.
C17_ReleaseAfterJoin ==
    /\ \A i \in SinkIds : sinks[i].st = "released" => \A w \in Handles : ~Live(w)
    /\ Cardinality({i \in SinkIds : sinks[i].st = "released"}) <= 1

\* C18: once a sink is held, no step before the destructor changes the sink
\* handle, the block size or the block count.
C18_ConfigFixed ==
    [][(track_ # NULL /\ ctl' \notin {"destroyed", "crashed"})
        => /\ track_' = track_
           /\ buffer_size_in_frames_' = buffer_size_in_frames_
           /\ buffer_block_count_' = buffer_block_count_]_vars

\* C19: no thread has called the render callback through a null
\* callback_func_.
C19_CallbackNonNull ==
    fault # "null_callback"

\* C20: an init that returns an error changes no field of the engine, no sink
\* and no thread.
C20_InitFailedFrame ==
    [][(returned'.op = "init" /\ returned'.result # OSLMP_RESULT_SUCCESS)
        => /\ UNCHANGED engine
           /\ sinks' = sinks /\ workers' = workers /\ ctl' = ctl]_vars

C20_Witness ==
    /\ returned = Returned("init", TRUE, OSLMP_RESULT_INTERNAL_ERROR)
    /\ track_ # NULL /\ sinks[track_].st = "open"
    /\ pt_handle_ = NULL

====
